---- MODULE Spec2Model ----
(***************************************************************************)
(* A model of main.py: the corpus loader (read_data), the set builder      *)
(* (ensemble_mots) and the query functions mots_de_n_lettres, mots_avec,   *)
(* cherche1 and cherche2.                                                  *)
(*                                                                         *)
(* A Python str is a sequence of one-character strings; a list is a        *)
(* sequence; a set is a set.  The text file is the sequence of its         *)
(* characters.                                                             *)
(***************************************************************************)
EXTENDS Integers, Sequences, FiniteSets, TLC

VARIABLES
    pc,      \* position of the run in main(), or of the caller of a query
    file,    \* the characters of the corpus file
    mots,    \* main.py:214  mots = read_data(FILENAME)
    ens,     \* main.py:215  ens = ensemble_mots(FILENAME)
    W,       \* the word collection handed to the queries
    call,    \* the last query call: function name and arguments
    res      \* the collection the last query returned

vars == <<pc, file, mots, ens, W, call, res>>

-----------------------------------------------------------------------------
(* Bounds of the model *)

MaxFileLen == 5
MaxWordLen == 3
MaxStrLen == 2
MaxListLen == 2

Letters == {"a", "b"}
NL == "\n"
FileChars == Letters \cup {" ", NL}

\* the characters str.strip() removes that a file of FileChars can hold
Whitespace == {" ", "\t", "\n", "\r", "\f"}

RECURSIVE SeqsUpTo(_, _)
SeqsUpTo(S, n) ==
    IF n = 0 THEN {<<>>}
    ELSE LET shorter == SeqsUpTo(S, n - 1)
         IN  shorter \cup {Append(s, x) : s \in shorter, x \in S}

Files == SeqsUpTo(FileChars, MaxFileLen)

-----------------------------------------------------------------------------
(* str methods *)

\* len(s)
len(s) == Len(s)

\* mot.startswith(start)
startswith(mot, start) ==
    /\ Len(start) <= Len(mot)
    /\ SubSeq(mot, 1, Len(start)) = start

\* mot.endswith(stop)
endswith(mot, stop) ==
    /\ Len(stop) <= Len(mot)
    /\ SubSeq(mot, Len(mot) - Len(stop) + 1, Len(mot)) = stop

\* mutant: the scan stops one position short of the end of mot
contains_missLast(mot, s) ==
    \E i \in 0 .. (Len(mot) - Len(s) - 1) : SubSeq(mot, i + 1, i + Len(s)) = s

\* s in mot
contains(mot, s) ==
    \E i \in 0 .. (Len(mot) - Len(s)) : SubSeq(mot, i + 1, i + Len(s)) = s

\* line.rstrip("\n"): every trailing "\n" is removed
RECURSIVE rstripNL(_)
rstripNL(line) ==
    IF line # <<>> /\ line[Len(line)] = NL
    THEN rstripNL(SubSeq(line, 1, Len(line) - 1))
    ELSE line

RECURSIVE lstrip(_)
lstrip(s) ==
    IF s # <<>> /\ s[1] \in Whitespace THEN lstrip(Tail(s)) ELSE s

RECURSIVE rstrip(_)
rstrip(s) ==
    IF s # <<>> /\ s[Len(s)] \in Whitespace
    THEN rstrip(SubSeq(s, 1, Len(s) - 1))
    ELSE s

\* s.strip(): leading and trailing whitespace removed
strip(s) == rstrip(lstrip(s))

-----------------------------------------------------------------------------
(* read_data, ensemble_mots *)

\* f.readlines(): the lines of the file, each with its terminator; a last
\* line without terminator is a line, an empty remainder is not
RECURSIVE readlinesFrom(_, _, _)
readlinesFrom(f, i, cur) ==
    IF i > Len(f)
    THEN IF cur = <<>> THEN <<>> ELSE <<cur>>
    ELSE IF f[i] = NL
         THEN <<Append(cur, NL)>> \o readlinesFrom(f, i + 1, <<>>)
         ELSE readlinesFrom(f, i + 1, Append(cur, f[i]))

readlines(f) == readlinesFrom(f, 1, <<>>)

\* for line in lines : l.append(line.rstrip("\n").strip())
RECURSIVE appendStripped(_, _, _)
appendStripped(lines, i, l) ==
    IF i > Len(lines) THEN l
    ELSE appendStripped(lines, i + 1, Append(l, strip(rstripNL(lines[i]))))

\* mutant: blank lines are skipped
RECURSIVE appendNonBlank(_, _, _)
appendNonBlank(lines, i, l) ==
    IF i > Len(lines) THEN l
    ELSE LET w == strip(rstripNL(lines[i]))
         IN  appendNonBlank(lines, i + 1, IF w = <<>> THEN l ELSE Append(l, w))

read_data_skipBlank(f) == appendNonBlank(readlines(f), 1, <<>>)

read_data(f) == appendStripped(readlines(f), 1, <<>>)

\* for elt in liste : res.add(elt)
RECURSIVE addAll(_, _, _)
addAll(liste, i, s) ==
    IF i > Len(liste) THEN s
    ELSE addAll(liste, i + 1, s \cup {liste[i]})

\* mutant: the first entry of the list is left out
ensemble_mots_skipFirst(f) == addAll(read_data(f), 2, {})

ensemble_mots(f) == addAll(read_data(f), 1, {})

-----------------------------------------------------------------------------
(* The queries.  A collection of words is the set of its elements: each     *)
(* query loops over the collection and adds the words it keeps to a set.    *)

\* mutant: <= for ==
mots_de_n_lettres_atMost(ms, n) == {mot \in ms : len(mot) <= n}

mots_de_n_lettres(ms, n) == {mot \in ms : len(mot) = n}

\* mutant: res.add(s) for res.add(mot)
mots_avec_addS(ms, s) == {s : mot \in {m \in ms : contains(m, s)}}

mots_avec(ms, s) == {mot \in ms : contains(mot, s)}

\* mutant: start and stop may not overlap in the word
cherche1_noOverlap(ms, start, stop, n) ==
    {mot \in ms :
        /\ startswith(mot, start) /\ endswith(mot, stop) /\ len(mot) = n
        /\ Len(start) + Len(stop) <= len(mot)}

cherche1(ms, start, stop, n) ==
    {mot \in ms : startswith(mot, start) /\ endswith(mot, stop) /\ len(mot) = n}

\* mot.startswith(tuple(lstart))
startswithAny(mot, lstart) ==
    \E i \in 1 .. Len(lstart) : startswith(mot, lstart[i])

\* mutant: only the first suffix of lstop is tried
endswithAny_firstOnly(mot, lstop) ==
    lstop # <<>> /\ endswith(mot, lstop[1])

\* mot.endswith(tuple(lstop))
endswithAny(mot, lstop) ==
    \E i \in 1 .. Len(lstop) : endswith(mot, lstop[i])

\* mutant: one string of lmid in mot is enough
scanMid_any(mot, lmid, i) ==
    \E j \in i .. Len(lmid) : contains(mot, lmid[j])

\* for chaine in lmid: if chaine not in mot: bo = False; break
RECURSIVE scanMid(_, _, _)
scanMid(mot, lmid, i) ==
    IF i > Len(lmid) THEN TRUE
    ELSE IF ~contains(mot, lmid[i]) THEN FALSE
    ELSE scanMid(mot, lmid, i + 1)

\* the value of bo when the body of the loop of cherche2 reaches line 204
bo(mot, lstart, lmid, lstop, nmin, nmax) ==
    LET bo1 == nmin <= len(mot) /\ len(mot) <= nmax
        bo2 == IF bo1 /\ ~startswithAny(mot, lstart) THEN FALSE ELSE bo1
        bo3 == IF bo2 /\ ~endswithAny(mot, lstop) THEN FALSE ELSE bo2
    IN  IF bo3 THEN scanMid(mot, lmid, 1) ELSE bo3

\* mutant: no early return on an empty list
cherche2_noGuard(ms, lstart, lmid, lstop, nmin, nmax) ==
    {mot \in ms : bo(mot, lstart, lmid, lstop, nmin, nmax)}

cherche2(ms, lstart, lmid, lstop, nmin, nmax) ==
    IF lstart = <<>> \/ lmid = <<>> \/ lstop = <<>>
    THEN {}
    ELSE {mot \in ms : bo(mot, lstart, lmid, lstop, nmin, nmax)}

-----------------------------------------------------------------------------
(* The run of main() over the corpus file *)

NoCall == [fn |-> "none"]

InitLoad ==
    /\ pc = "main"
    /\ file \in Files
    /\ mots = <<>>
    /\ ens = {}
    /\ W = {}
    /\ call = NoCall
    /\ res = {}

ReadData ==
    /\ pc = "main"
    /\ mots' = read_data(file)
    /\ pc' = "read"
    /\ UNCHANGED <<file, ens, W, call, res>>

EnsembleMots ==
    /\ pc = "read"
    /\ ens' = ensemble_mots(file)
    /\ pc' = "loaded"
    /\ UNCHANGED <<file, mots, W, call, res>>

NextLoad == ReadData \/ EnsembleMots

SpecLoad == InitLoad /\ [][NextLoad]_vars

-----------------------------------------------------------------------------
(* One query on a collection of words *)

Words == SeqsUpTo(Letters, MaxWordLen)

\* the words whose length lies in lo .. hi
WordsBetween(lo, hi) == {w \in Words : lo <= Len(w) /\ Len(w) <= hi}

\* the corpus of the scenario: the lines chat, chien, chacal, chaton
ScenarioFile ==
    <<"c", "h", "a", "t", NL, "c", "h", "i", "e", "n", NL,
      "c", "h", "a", "c", "a", "l", NL, "c", "h", "a", "t", "o", "n", NL>>

ScenarioSet == ensemble_mots(ScenarioFile)

\* the collections handed to the queries: the words up to a length, the
\* words from a length on (none, for a length no word has), the scenario's
Collections ==
    {WordsBetween(0, hi) : hi \in 0 .. MaxWordLen}
        \cup {WordsBetween(lo, MaxWordLen) : lo \in 1 .. (MaxWordLen + 1)}
        \cup {ScenarioSet}

\* the strings and lengths a caller passes
Strs == SeqsUpTo(Letters, MaxStrLen)
Lengths == -1 .. (MaxWordLen + 1)
LengthBounds == 1 .. MaxWordLen
Affixes == {<<"a">>, <<"b">>}
Lists == SeqsUpTo(Affixes, MaxListLen)

\* the arguments of the scenario's call of cherche2
ScenarioArgs ==
    [lstart |-> << <<"c">> >>, lmid |-> << <<"a">> >>,
     lstop |-> << <<"t">>, <<"l">> >>, nmin |-> 4, nmax |-> 6]

Cherche2Args ==
    [lstart : Lists, lmid : Lists, lstop : Lists,
     nmin : LengthBounds, nmax : LengthBounds] \cup {ScenarioArgs}

InitQuery ==
    /\ pc = "ready"
    /\ W \in Collections
    /\ file = <<>>
    /\ mots = <<>>
    /\ ens = {}
    /\ call = NoCall
    /\ res = {}

QueryLength ==
    /\ pc = "ready"
    /\ \E n \in Lengths :
        /\ res' = mots_de_n_lettres(W, n)
        /\ call' = [fn |-> "mots_de_n_lettres", n |-> n]
    /\ pc' = "done"
    /\ UNCHANGED <<file, mots, ens, W>>

QueryAvec ==
    /\ pc = "ready"
    /\ \E s \in Strs :
        /\ res' = mots_avec(W, s)
        /\ call' = [fn |-> "mots_avec", s |-> s]
    /\ pc' = "done"
    /\ UNCHANGED <<file, mots, ens, W>>

QueryCherche1 ==
    /\ pc = "ready"
    /\ \E start \in Strs, stop \in Strs, n \in Lengths :
        /\ res' = cherche1(W, start, stop, n)
        /\ call' = [fn |-> "cherche1", start |-> start, stop |-> stop, n |-> n]
    /\ pc' = "done"
    /\ UNCHANGED <<file, mots, ens, W>>

QueryCherche2 ==
    /\ pc = "ready"
    /\ \E a \in Cherche2Args :
        /\ res' = cherche2(W, a.lstart, a.lmid, a.lstop, a.nmin, a.nmax)
        /\ call' = [fn |-> "cherche2", lstart |-> a.lstart, lmid |-> a.lmid,
                    lstop |-> a.lstop, nmin |-> a.nmin, nmax |-> a.nmax]
    /\ pc' = "done"
    /\ UNCHANGED <<file, mots, ens, W>>

NextQuery == QueryLength \/ QueryAvec \/ QueryCherche1 \/ QueryCherche2

SpecQuery == InitQuery /\ [][NextQuery]_vars

-----------------------------------------------------------------------------
(* Queries in sequence, as main() makes them: each on the collection W or   *)
(* on the result of the query before it (line 233 nests cherche1 in         *)
(* mots_avec).                                                              *)

InitChain ==
    /\ pc = "first"
    /\ W \in Collections
    /\ file = <<>>
    /\ mots = <<>>
    /\ ens = {}
    /\ call = NoCall
    /\ res = {}

\* what the next query may be applied to: W, or once a query has returned,
\* its result
SourceKinds == IF pc = "first" THEN {"W"} ELSE {"W", "res"}
Source(k) == IF k = "W" THEN W ELSE res

\* the arguments of the queries of a sequence
ChainStrs == {<<>>} \cup Affixes
ChainLists == {<<>>} \cup {<<x>> : x \in Affixes}

ChainLength ==
    /\ \E k \in SourceKinds, n \in Lengths :
        /\ res' = mots_de_n_lettres(Source(k), n)
        /\ call' = [fn |-> "query", on |-> k]
    /\ pc' = "next"
    /\ UNCHANGED <<file, mots, ens, W>>

ChainAvec ==
    /\ \E k \in SourceKinds, s \in Strs :
        /\ res' = mots_avec(Source(k), s)
        /\ call' = [fn |-> "query", on |-> k]
    /\ pc' = "next"
    /\ UNCHANGED <<file, mots, ens, W>>

ChainCherche1 ==
    /\ \E k \in SourceKinds, start \in ChainStrs, stop \in ChainStrs,
          n \in Lengths :
        /\ res' = cherche1(Source(k), start, stop, n)
        /\ call' = [fn |-> "query", on |-> k]
    /\ pc' = "next"
    /\ UNCHANGED <<file, mots, ens, W>>

ChainCherche2 ==
    /\ \E k \in SourceKinds, lstart \in ChainLists, lmid \in ChainLists,
          lstop \in ChainLists, nmin \in LengthBounds,
          nmax \in LengthBounds :
        /\ res' = cherche2(Source(k), lstart, lmid, lstop, nmin, nmax)
        /\ call' = [fn |-> "query", on |-> k]
    /\ pc' = "next"
    /\ UNCHANGED <<file, mots, ens, W>>

NextChain == ChainLength \/ ChainAvec \/ ChainCherche1 \/ ChainCherche2

SpecChain == InitChain /\ [][NextChain]_vars

-----------------------------------------------------------------------------
(* The lines of a file, read off its characters *)

NLPositions(f) == {i \in 1 .. Len(f) : f[i] = NL}

\* a file has one line per terminator, and one more when characters follow
\* the last terminator
NumLines(f) ==
    Cardinality(NLPositions(f))
        + (IF f # <<>> /\ f[Len(f)] # NL THEN 1 ELSE 0)

\* position of the k-th terminator, Len(f) + 1 when the k-th line has none
NthNL(f, k) ==
    IF k = 0 THEN 0
    ELSE IF k > Cardinality(NLPositions(f)) THEN Len(f) + 1
    ELSE CHOOSE p \in NLPositions(f) :
             Cardinality({q \in NLPositions(f) : q <= p}) = k

\* the k-th line without its terminator
LineText(f, k) == SubSeq(f, NthNL(f, k - 1) + 1, NthNL(f, k) - 1)

\* w is l without its leading and trailing whitespace
IsStripOf(w, l) ==
    \E i \in 1 .. Len(l) + 1 : \E j \in (i - 1) .. Len(l) :
        /\ w = SubSeq(l, i, j)
        /\ \A k \in 1 .. (i - 1) : l[k] \in Whitespace
        /\ \A k \in (j + 1) .. Len(l) : l[k] \in Whitespace
        /\ i <= j => (l[i] \notin Whitespace /\ l[j] \notin Whitespace)

SameStripped(l1, l2) ==
    \E i \in 1 .. Len(l1) + 1 : \E j \in (i - 1) .. Len(l1) :
        /\ IsStripOf(SubSeq(l1, i, j), l1)
        /\ IsStripOf(SubSeq(l1, i, j), l2)

-----------------------------------------------------------------------------
(* Claims on the loader and the set builder *)

\* C10: read_data returns one entry per line of the file, in file order;
\* entry k is line k without its terminator and without its leading and
\* trailing whitespace, so duplicate lines stay duplicate entries and blank
\* lines stay empty entries.
C10_OneEntryPerLine ==
    pc # "main" =>
        /\ Len(mots) = NumLines(file)
        /\ \A k \in 1 .. Len(mots) : IsStripOf(mots[k], LineText(file, k))

\* a file with a blank line, a duplicated word and a line with whitespace
\* around its word has been read
C10_Witness ==
    /\ pc = "read"
    /\ \E k \in 1 .. Len(mots) : mots[k] = <<>>
    /\ \E i, j \in 1 .. Len(mots) : i < j /\ mots[i] = mots[j] /\ mots[i] # <<>>
    /\ \E k \in 1 .. Len(mots) :
           mots[k] # <<>> /\ mots[k] # LineText(file, k)

\* C9 as stated: the set has at most as many elements as the list, and as
\* many when no two lines of the file are equal.
C9_Original ==
    pc = "loaded" =>
        /\ Cardinality(ens) <= Len(mots)
        /\ (\A i, j \in 1 .. NumLines(file) :
                i # j => LineText(file, i) # LineText(file, j))
           => Cardinality(ens) = Len(mots)

\* C9, amended: the set has at most as many elements as the list, and as
\* many when no two lines of the file are equal once their leading and
\* trailing whitespace is stripped.
C9_DedupCount ==
    pc = "loaded" =>
        /\ Cardinality(ens) <= Len(mots)
        /\ (\A i, j \in 1 .. NumLines(file) :
                i # j => ~SameStripped(LineText(file, i), LineText(file, j)))
           => Cardinality(ens) = Len(mots)

\* a file of several lines, no two equal once stripped, one of them with
\* whitespace around its word, has been loaded and folded into the set
C9_Witness ==
    /\ pc = "loaded"
    /\ NumLines(file) >= 2
    /\ \A i, j \in 1 .. NumLines(file) :
           i # j => ~SameStripped(LineText(file, i), LineText(file, j))
    /\ \E k \in 1 .. NumLines(file) : ~IsStripOf(LineText(file, k), LineText(file, k))
    /\ Cardinality(ens) = NumLines(file)

-----------------------------------------------------------------------------
(* Claims on the queries.  What a word starts with, ends with and contains  *)
(* is stated by concatenation.                                              *)

HasPrefix(w, p) == \E k \in 0 .. Len(w) : w = p \o SubSeq(w, k + 1, Len(w))

HasSuffix(w, x) == \E k \in 0 .. Len(w) : w = SubSeq(w, 1, k) \o x

HasSubstring(w, x) ==
    \E i \in 0 .. Len(w) : \E j \in i .. Len(w) :
        w = SubSeq(w, 1, i) \o x \o SubSeq(w, j + 1, Len(w))

Elements(l) == {l[i] : i \in 1 .. Len(l)}

\* the record of the scenario's call of cherche2
ScenarioCall ==
    [fn |-> "cherche2", lstart |-> << <<"c">> >>, lmid |-> << <<"a">> >>,
     lstop |-> << <<"t">>, <<"l">> >>, nmin |-> 4, nmax |-> 6]

C2_EmptyListEmptyResult ==
    (call.fn = "cherche2"
         /\ (call.lstart = <<>> \/ call.lmid = <<>> \/ call.lstop = <<>>)) =>
        res = {}

\* cherche2 was called with an empty lmid and arguments that every word of
\* a non-empty W satisfies otherwise
C2_Witness ==
    /\ call.fn = "cherche2"
    /\ call.lmid = <<>> /\ call.lstart # <<>> /\ call.lstop # <<>>
    /\ W # {}
    /\ \A w \in W :
        /\ call.nmin <= Len(w) /\ Len(w) <= call.nmax
        /\ \E p \in Elements(call.lstart) : HasPrefix(w, p)
        /\ \E x \in Elements(call.lstop) : HasSuffix(w, x)
    /\ res = {}

\* C3 as stated: on the set built from the lines chat, chien, chacal,
\* chaton, cherche2(set, ["c"], ["a"], ["t", "l"], 4, 6) returns chat,
\* chacal and chaton.
C3_Original ==
    (call.fn = "cherche2" /\ W = ScenarioSet /\ call = ScenarioCall) =>
        res = {<<"c", "h", "a", "t">>, <<"c", "h", "a", "c", "a", "l">>,
               <<"c", "h", "a", "t", "o", "n">>}

\* C3, amended: on the set built from the lines chat, chien, chacal, chaton,
\* cherche2(set, ["c"], ["a"], ["t", "l"], 4, 6) returns chat and chacal
\* (chaton ends with neither t nor l).
C3_Scenario ==
    (call.fn = "cherche2" /\ W = ScenarioSet /\ call = ScenarioCall) =>
        res = {<<"c", "h", "a", "t">>, <<"c", "h", "a", "c", "a", "l">>}

\* the scenario's call was made on the scenario's four words
C3_Witness ==
    /\ call = ScenarioCall
    /\ W = {<<"c", "h", "a", "t">>, <<"c", "h", "i", "e", "n">>,
            <<"c", "h", "a", "c", "a", "l">>, <<"c", "h", "a", "t", "o", "n">>}
    /\ Cardinality(res) = 2

\* C4: cherche2 returns the words that start with a string of lstart,
\* contain a string of lmid (at least one of them), end with a string of
\* lstop and have between nmin and nmax letters.
C4_Docstring ==
    call.fn = "cherche2" =>
        res = {w \in W :
                 /\ call.nmin <= Len(w) /\ Len(w) <= call.nmax
                 /\ \E p \in Elements(call.lstart) : HasPrefix(w, p)
                 /\ \E m \in Elements(call.lmid) : HasSubstring(w, m)
                 /\ \E x \in Elements(call.lstop) : HasSuffix(w, x)}

\* C5: cherche1 returns exactly the words of W of length n that begin with
\* start and end with stop, the two occurrences overlapping or not; the
\* result is empty when start or stop is longer than n.
C5_AffixExact ==
    call.fn = "cherche1" =>
        /\ res = {w \in W :
                    Len(w) = call.n /\ HasPrefix(w, call.start)
                        /\ HasSuffix(w, call.stop)}
        /\ (Len(call.start) > call.n \/ Len(call.stop) > call.n) => res = {}

\* cherche1 kept a word shorter than start and stop together, and left
\* another word out
C5_Witness ==
    /\ call.fn = "cherche1"
    /\ call.start # <<>> /\ call.stop # <<>>
    /\ \E w \in res : Len(w) < Len(call.start) + Len(call.stop)
    /\ res # W

\* C6: mots_avec returns exactly the words of W that contain s as a
\* contiguous substring, at any position; with s empty it returns all of W,
\* the empty word included.
C6_ContainingExact ==
    call.fn = "mots_avec" =>
        /\ res = {w \in W : HasSubstring(w, call.s)}
        /\ call.s = <<>> => res = W

\* mots_avec kept a word that holds s only strictly inside, and left another
\* word out
C6_Witness ==
    /\ call.fn = "mots_avec"
    /\ call.s # <<>>
    /\ \E w \in res : ~HasPrefix(w, call.s) /\ ~HasSuffix(w, call.s)
    /\ res # W

\* C7: mots_de_n_lettres returns exactly the words of W of n characters:
\* with n = 0 the empty word if W holds it and nothing otherwise, and with n
\* negative or larger than every word's length the empty collection.
C7_LengthExact ==
    call.fn = "mots_de_n_lettres" =>
        /\ res = {w \in W : Len(w) = call.n}
        /\ call.n = 0 => res = W \cap {<<>>}
        /\ (call.n < 0 \/ \A w \in W : Len(w) < call.n) => res = {}

\* mots_de_n_lettres was called with n = 0 on a collection that holds the
\* empty word and other words
C7_Witness ==
    /\ call.fn = "mots_de_n_lettres"
    /\ call.n = 0
    /\ <<>> \in W /\ W # {<<>>}
    /\ res = {<<>>}

\* C8: after any sequence of queries, each applied to W or to the result of
\* an earlier query, the result is a subset of W: no word that W does not
\* hold appears in it.
C8_SubsetOfInitial == pc = "next" => res \subseteq W

\* a query applied to the result of an earlier query kept some of W's words
\* and dropped others
C8_Witness ==
    /\ pc = "next"
    /\ call.on = "res"
    /\ res # {} /\ res # W
    /\ Cardinality(W \ res) >= 2

====
